---- MODULE Spec2Model ----
(***************************************************************************)
(* Model of helpers/index.js of dydx.vote: the signature-relay helpers     *)
(* canDelegate, canVote, vote and delegate, the remote reads they issue,   *)
(* the pending-transaction store they write and the notification hook.     *)
(*                                                                         *)
(* JavaScript runs each callback to completion, so one action is one       *)
(* run-to-completion segment: the call of an exported function up to its   *)
(* first wait for I/O, or the completion of one I/O operation together     *)
(* with every continuation (await / catch / rethrow) it resumes.           *)
(***************************************************************************)
EXTENDS Integers, Sequences, FiniteSets, TLC

(***************************************************************************)
(* Bounds of the model.                                                    *)
(***************************************************************************)
\* number of request slots (calls that can be outstanding at once)
NumReq == 2

Procs == 1..NumReq

(***************************************************************************)
(* Program constants.                                                      *)
(***************************************************************************)
\* process.env.MIN_COMP, the minimum balance / voting power
MIN_COMP == 100
\* the block buffer kept for relaying: proposal.endBlock - 2400
SAFETY_MARGIN == 2400

\* JavaScript's undefined and null, as argument values
UNDEF == "undefined"
NULL == "null"
\* canDelegate's default for a delegatee that is not given
NoDelegatee == "0x"

(***************************************************************************)
(* Strings.  Addresses come in a lower-case form and in a mixed-case       *)
(* (checksum) form; "0xzz" is a string that is not an address.  "0xcc" is  *)
(* the address a signature recovers to when it was made over another       *)
(* message: it belongs to nobody.                                          *)
(***************************************************************************)
Accounts == {"0xaa", "0xbb"}

\* String.prototype.toLowerCase on the strings of the model
ToLowerCase(s) ==
    CASE s = "0xAa" -> "0xaa"
      [] s = "0xBb" -> "0xbb"
      [] s = "0xZz" -> "0xzz"
      [] OTHER -> s

\* web3.utils.isAddress: 40 hex digits, all of one case or with a valid checksum
IsAddress(s) == s \in {"0xaa", "0xAa", "0xbb", "0xBb", "0xcc"}

\* a.localeCompare(b) == 0 on the strings of the model
LocaleEqual(a, b) == a = b

(***************************************************************************)
(* Errors.  hasCode is `typeof error.code == "number"`.                    *)
(***************************************************************************)
Coded(name, code) == [name |-> name, hasCode |-> TRUE, code |-> code]
Uncoded(name) == [name |-> name, hasCode |-> FALSE, code |-> 0]
NoError == Uncoded("none")

InvalidInput == Coded("invalid input", 422)
InvalidAddressInput == Coded("invalid address input", 422)
InvalidDelegatee == Coded("invalid delegatee address", 422)
InvalidFrom == Coded("invalid from address", 422)
InvalidSignature == Coded("invalid signature", 422)
SignerMismatch == Coded("given address does not match signer address", 422)
ChainQueryFailed == Coded("error fetching data from blockchain", 500)
InsufficientBalance == Coded("dYdX balance too low", 403)
NoOpDelegation == Coded("delegatee can not be current delegatee", 403)
ProposalNotActive == Coded("proposal voting period is not active", 400)
InsufficientVotingPower == Coded("dYdX voting power is too low", 403)
AlreadyVoted == Coded("address already voted", 400)

\* errors raised by the JavaScript runtime: no numeric code
TypeError == Uncoded("TypeError")
ReferenceError == Uncoded("ReferenceError")
\* errors of a chain read: a transport failure has no numeric code, a JSON-RPC
\* error response carries one
RpcFailure == Uncoded("rpc failure")
RpcErrorResponse == Coded("rpc error response", -32000)
\* errors of the notification request (axios): code is absent or a string
AxiosError == Uncoded("AxiosError")
\* errors of the database helpers
DbPending == Coded("pending transaction exists", 403)
DbFailure == Uncoded("database failure")

(***************************************************************************)
(* Typed-data messages and signatures.                                     *)
(***************************************************************************)
createVoteBySigMessage(id, support) ==
    [primaryType |-> "VoteEmitted", name |-> "dYdX Governance",
     id |-> id, support |-> support,
     delegatee |-> "", nonce |-> "", expiry |-> ""]

createDelegateBySigMessage(delegatee, nonce, expiry) ==
    [primaryType |-> "Delegate", name |-> "dYdX",
     id |-> "", support |-> "",
     delegatee |-> delegatee, nonce |-> nonce, expiry |-> expiry]

\* A signature (v, r, s): made by the key of `signer` over the document `data`,
\* or malformed (ok = FALSE: a component that is no hex string, a bad length).
NoData == createVoteBySigMessage("", "")
Malformed == [ok |-> FALSE, signer |-> "", data |-> NoData]
Sign(signer, data) == [ok |-> TRUE, signer |-> signer, data |-> data]

\* r + s.substring(2) + v.substring(2) and recoverTypedSignature throw inside
\* the try block
RecoverThrows(sig) == ~sig.ok

\* recoverTypedSignature({data, signature, version: "V4"}): the signer's address
\* in lower-case hex when the signature is over `data`, else an unrelated address
recoverTypedSignature(data, sig) ==
    IF sig.data = data THEN sig.signer ELSE "0xcc"

(***************************************************************************)
(* The chain, as the contract reads see it, and the inputs of the calls.   *)
(***************************************************************************)
BaseChain ==
    [balance |-> 150, delegV |-> "0xAa", delegP |-> "0xAa",
     currentBlock |-> 1001, startBlock |-> 1000, endBlock |-> 5000,
     canceled |-> FALSE, receiptPower |-> 0, votesDelegated |-> 150]

\* chain states that vary what canDelegate reads
DelegateChains ==
    {[BaseChain EXCEPT !.delegV = dv, !.delegP = dp] :
        dv \in {"0xAa", "0xBb"}, dp \in {"0xAa", "0xBb"}}
    \cup {[BaseChain EXCEPT !.balance = 50]}

\* chain states that vary what canVote reads
VoteChains ==
    {[BaseChain EXCEPT !.currentBlock = cb, !.canceled = c] :
        cb \in {1000, 1001, 2600}, c \in BOOLEAN}

Chains == DelegateChains \cup VoteChains

VoteMessages == {createVoteBySigMessage("1", s) : s \in {"true", "false"}}
DelegateMessages == {createDelegateBySigMessage(d, "0", "9") : d \in Accounts}

NoInput == [address |-> "", delegatee |-> "", proposalId |-> "", support |-> "",
            nonce |-> "", expiry |-> "", sig |-> Malformed]

VoteInputs ==
    {[NoInput EXCEPT !.address = a, !.proposalId = i, !.support = s, !.sig = g] :
        a \in {UNDEF, NULL, "0xaa", "0xAa", "0xzz"},
        i \in {UNDEF, "1"}, s \in {"true", "false"},
        g \in {Malformed} \cup {Sign(k, m) : k \in Accounts, m \in VoteMessages}}

DelegateInputs ==
    {[NoInput EXCEPT !.address = a, !.delegatee = d, !.nonce = "0",
                     !.expiry = "9", !.sig = g] :
        a \in {UNDEF, NULL, "0xaa", "0xAa", "0xzz"},
        d \in {UNDEF, "0xaa", "0xbb", "0xBb", "0xZz"},
        g \in {Malformed} \cup {Sign(k, m) : k \in Accounts, m \in DelegateMessages}}

\* direct calls of the exported eligibility checks
CanVoteInputs ==
    {[NoInput EXCEPT !.address = a, !.proposalId = i] :
        a \in {UNDEF, "0xaa", "0xAa", "0xzz"}, i \in {UNDEF, "1"}}

CanDelegateInputs ==
    {[NoInput EXCEPT !.address = a, !.delegatee = d] :
        a \in {UNDEF, "0xaa", "0xAa", "0xzz"},
        d \in {UNDEF, "0xaa", "0xBb", "0xZz"}}

Inputs(op) ==
    CASE op = "vote" -> VoteInputs
      [] op = "delegate" -> DelegateInputs
      [] op = "canVote" -> CanVoteInputs
      [] op = "canDelegate" -> CanDelegateInputs

\* concurrent load: delegations correctly signed by one and the same address
ConcInputs ==
    {[NoInput EXCEPT !.address = a, !.delegatee = "0xbb", !.nonce = "0",
                     !.expiry = "9",
                     !.sig = Sign("0xaa", createDelegateBySigMessage("0xbb", "0", "9"))] :
        a \in {"0xaa", "0xAa"}}

Ops == {"vote", "delegate", "canVote", "canDelegate"}

(***************************************************************************)
(* State.                                                                  *)
(***************************************************************************)
VARIABLES
    chain,   \* what the contract reads return
    hook,    \* typeof process.env.NOTIFICATION_HOOK != "undefined"
    faults,  \* whether remote reads and database calls can fail
    db,      \* the stored pending transactions, in insertion order
    req      \* the outstanding calls

vars == <<chain, hook, faults, db, req>>

\* the remote reads of the two eligibility checks
ReadNames == {"balance", "delegV", "delegP", "dbDeleg",
              "proposal", "receipt", "block", "dbVote", "power"}

NoReads == [r \in ReadNames |-> "none"]

Idle ==
    [pc |-> "idle", op |-> "none", in |-> NoInput, address |-> "", delegatee |-> "",
     reads |-> NoReads, elig |-> "none", stored |-> FALSE, notify |-> "none",
     result |-> "none", error |-> NoError,
     \* history: the error a read of the call failed with, and the number of
     \* stored transactions when its database check was answered
     cause |-> NoError, dbSeen |-> 0]

(***************************************************************************)
(* The database helpers (helpers/database/awaitingTxs).                    *)
(***************************************************************************)
\* a pending (not yet executed) transaction of this type from this address
Pending(type, address) ==
    \E i \in 1..Len(db) :
        db[i].type = type /\ db[i].from = address /\ ~db[i].executed

\* delegationAllowed(address): rejects when a delegation of the address is pending
delegationAllowed(address) ==
    IF Pending("delegate", address) THEN DbPending ELSE NoError

\* voteAllowed(address, proposalId): rejects when a vote of the address on the
\* proposal is pending
voteAllowed(address, proposalId) ==
    IF \E i \in 1..Len(db) :
           db[i].type = "vote" /\ db[i].from = address /\ ~db[i].executed
           /\ db[i].proposalId = proposalId
    THEN DbPending ELSE NoError

(***************************************************************************)
(* How a call ends.                                                        *)
(***************************************************************************)
\* the call rejects with err; reads still in flight have no one waiting for them
Throw(q, err) ==
    [q EXCEPT !.pc = "done", !.result = "failed", !.error = err,
              !.reads = [r \in ReadNames |->
                            IF q.reads[r] = "inflight" THEN "abandoned" ELSE q.reads[r]]]
Return(q) == [q EXCEPT !.pc = "done", !.result = "ok"]

\* catch of canDelegate's reads
CanDelegateCatch(error) == IF error.hasCode THEN error ELSE ChainQueryFailed
\* catch of canVote's reads
CanVoteCatch(erorr) == IF erorr.hasCode THEN erorr ELSE ChainQueryFailed
\* catch around `await canVote(...)` in vote
VoteCatch(error) == IF error.hasCode THEN error ELSE ChainQueryFailed
\* catch around `await canDelegate(...)` in delegate
DelegateCatch(error) == IF error.hasCode THEN error ELSE ChainQueryFailed

\* (mutant) the catch around the eligibility check does not rethrow
EligThrowNoRethrow(q, err) ==
    LET f == [q EXCEPT !.elig = "failed"] IN
    IF q.op \in {"vote", "delegate"} THEN [f EXCEPT !.pc = "insert"]
    ELSE Throw(f, err)

\* the eligibility check of q threw err: a direct caller gets it as it is, vote
\* and delegate pass it through their catch
EligThrow(q, err) ==
    LET f == [q EXCEPT !.elig = "failed"] IN
    CASE q.op = "vote" -> Throw(f, VoteCatch(err))
      [] q.op = "delegate" -> Throw(f, DelegateCatch(err))
      [] OTHER -> Throw(f, err)

\* the eligibility check of q returned: vote and delegate build the transaction
\* and call insertVoteTx / insertDelegateTx
EligReturn(q) ==
    LET f == [q EXCEPT !.elig = "ok"] IN
    IF q.op \in {"vote", "delegate"} THEN [f EXCEPT !.pc = "insert"] ELSE Return(f)

(***************************************************************************)
(* canDelegate.                                                            *)
(***************************************************************************)
\* (mutant) the pending check is left out of the reads
DelegateBatchNoDb == <<"balance", "delegV", "delegP">>

\* the array given to Promise.all, in the order its elements are evaluated
DelegateBatch == <<"balance", "delegV", "delegP", "dbDeleg">>

IssueAll(q, batch) ==
    [q EXCEPT !.pc = "batch",
              !.reads = [r \in ReadNames |->
                            IF \E i \in 1..Len(batch) : batch[i] = r
                            THEN "inflight" ELSE q.reads[r]]]

\* canDelegate up to its await: formatting, validation, the four reads issued
CanDelegateStart(q, address, delegatee) ==
    IF address \in {UNDEF, NULL}
    THEN EligThrow(q, TypeError)
    ELSE
    LET d == ToLowerCase(IF delegatee = UNDEF THEN NoDelegatee ELSE delegatee)
        a == ToLowerCase(address)
        f == [q EXCEPT !.address = a, !.delegatee = d, !.elig = "running"]
    IN  IF a = UNDEF THEN EligThrow(f, InvalidAddressInput)
        ELSE IF d # NoDelegatee /\ ~IsAddress(d) THEN EligThrow(f, InvalidDelegatee)
        ELSE IF ~IsAddress(a) THEN EligThrow(f, InvalidFrom)
        ELSE IssueAll(f, DelegateBatch)

\* (mutant) one match is enough
MatchesEither(delegatee, currentDelegateeVoting, currentDelegateeProposition) ==
    /\ delegatee # NoDelegatee
    /\ \/ LocaleEqual(delegatee, ToLowerCase(currentDelegateeVoting))
       \/ LocaleEqual(delegatee, ToLowerCase(currentDelegateeProposition))

\* delegatee matches both current delegatees
MatchesBoth(delegatee, currentDelegateeVoting, currentDelegateeProposition) ==
    /\ delegatee # NoDelegatee
    /\ LocaleEqual(delegatee, ToLowerCase(currentDelegateeVoting))
    /\ LocaleEqual(delegatee, ToLowerCase(currentDelegateeProposition))

\* canDelegate after its reads
CanDelegateChecks(q) ==
    IF chain.balance < MIN_COMP THEN EligThrow(q, InsufficientBalance)
    ELSE IF MatchesBoth(q.delegatee, chain.delegV, chain.delegP)
    THEN EligThrow(q, NoOpDelegation)
    ELSE EligReturn(q)

(***************************************************************************)
(* canVote.                                                                *)
(***************************************************************************)
\* (mutant) the voting power is read beside the first batch
VoteBatchWithPower == <<"power", "proposal", "receipt", "block", "dbVote">>

\* the array given to Promise.all, in the order its elements are evaluated
VoteBatch == <<"proposal", "receipt", "block", "dbVote">>

\* whether the identifier governorBravo is bound: the module neither imports nor
\* declares it, and canVote takes only web3, dydxToken and governor from Web3Handler
GovernorBravoBound == FALSE

\* evaluating this element of the array throws
EvalThrows(r) == r = "receipt" /\ ~GovernorBravoBound

\* the elements evaluated (their reads issued) before one throws
Evaluated(batch) ==
    IF \E i \in 1..Len(batch) : EvalThrows(batch[i])
    THEN SubSeq(batch, 1, (CHOOSE i \in 1..Len(batch) :
                              /\ EvalThrows(batch[i])
                              /\ \A j \in 1..(i - 1) : ~EvalThrows(batch[j])) - 1)
    ELSE batch

isWhitelisted(address) ==
    address \in {"0x5b3bffc0bcf8d4caec873fdcf719f60725767c98",
                 "0x2b384212edc04ae8bb41738d05ba20e33277bf33"}

\* canVote up to its await
CanVoteStart(q, address, proposalId) ==
    IF address = UNDEF \/ proposalId = UNDEF THEN EligThrow(q, InvalidInput)
    ELSE IF address = NULL THEN EligThrow(q, TypeError)
    ELSE
    LET a == ToLowerCase(address)
        f == [q EXCEPT !.address = a, !.elig = "running"]
    IN  IF ~IsAddress(a) THEN EligThrow(f, InvalidFrom)
        ELSE IF Evaluated(VoteBatch) # VoteBatch
        THEN EligThrow([IssueAll(f, Evaluated(VoteBatch)) EXCEPT !.pc = "batch"],
                       CanVoteCatch(ReferenceError))
        ELSE IssueAll(f, VoteBatch)

\* the proposal's voting period is ongoing, with the buffer for relaying
Ongoing(currentBlock, proposal) ==
    /\ currentBlock > proposal.startBlock
    /\ currentBlock < proposal.endBlock - SAFETY_MARGIN

\* canVote after its reads
CanVoteChecks(q) ==
    IF ~Ongoing(chain.currentBlock, chain) \/ chain.canceled
    THEN EligThrow(q, ProposalNotActive)
    ELSE IF chain.votesDelegated < MIN_COMP /\ ~isWhitelisted(q.address)
    THEN EligThrow(q, InsufficientVotingPower)
    ELSE IF chain.receiptPower > 0 THEN EligThrow(q, AlreadyVoted)
    ELSE EligReturn(q)

(***************************************************************************)
(* vote and delegate.                                                      *)
(***************************************************************************)
\* (mutant) the comparison is left out
SignerNotCompared(address, sigAddress) == TRUE

\* the recovered signer matches the alleged address
SignerMatches(address, sigAddress) == LocaleEqual(address, sigAddress)

\* vote up to its first wait for I/O
VoteStart(q, in) ==
    IF UNDEF \in {in.address, in.proposalId, in.support} THEN Throw(q, InvalidInput)
    ELSE IF in.address = NULL THEN Throw(q, TypeError)
    ELSE
    LET address == ToLowerCase(in.address)
        data == createVoteBySigMessage(in.proposalId, in.support)
        f == [q EXCEPT !.address = address]
    IN  IF RecoverThrows(in.sig) THEN Throw(f, InvalidSignature)
        ELSE IF ~SignerMatches(address, ToLowerCase(recoverTypedSignature(data, in.sig)))
        THEN Throw(f, InvalidSignature)
        ELSE CanVoteStart(f, address, in.proposalId)

\* delegate up to its first wait for I/O
DelegateStart(q, in) ==
    IF UNDEF \in {in.address, in.delegatee, in.nonce, in.expiry}
    THEN Throw(q, InvalidInput)
    ELSE IF in.address = NULL THEN Throw(q, TypeError)
    ELSE
    LET address == ToLowerCase(in.address)
        delegatee == ToLowerCase(in.delegatee)
        data == createDelegateBySigMessage(delegatee, in.nonce, in.expiry)
        f == [q EXCEPT !.address = address, !.delegatee = delegatee]
    IN  IF RecoverThrows(in.sig) THEN Throw(f, InvalidSignature)
        ELSE IF ~SignerMatches(ToLowerCase(recoverTypedSignature(data, in.sig)), address)
        THEN Throw(f, SignerMismatch)
        ELSE CanDelegateStart(f, address, delegatee)

\* the transaction vote stores
NewVoteTx(q) ==
    [from |-> q.address, type |-> "vote", executed |-> FALSE,
     proposalId |-> q.in.proposalId, support |-> q.in.support,
     delegatee |-> "", nonce |-> "", expiry |-> "", sig |-> q.in.sig]

\* the transaction delegate stores
NewDelegateTx(q) ==
    [from |-> q.address, type |-> "delegate", executed |-> FALSE,
     proposalId |-> "", support |-> "",
     delegatee |-> q.delegatee, nonce |-> q.in.nonce, expiry |-> q.in.expiry,
     sig |-> q.in.sig]

\* after the insert: the notification is requested when the hook is configured
AfterInsert(q) ==
    IF hook THEN [q EXCEPT !.pc = "notify", !.notify = "inflight"] ELSE Return(q)

\* the notification request failed
NotifyFailed(q) == Throw([q EXCEPT !.notify = "failed"], AxiosError)

(***************************************************************************)
(* Actions.                                                                *)
(***************************************************************************)
\* an exported function is called
Call(p, op, in) ==
    /\ req[p].pc = "idle"
    /\ req' = [req EXCEPT ![p] =
                 LET q == [Idle EXCEPT !.op = op, !.in = in] IN
                 CASE op = "vote" -> VoteStart(q, in)
                   [] op = "delegate" -> DelegateStart(q, in)
                   [] op = "canVote" -> CanVoteStart(q, in.address, in.proposalId)
                   [] OTHER -> CanDelegateStart(q, in.address, in.delegatee)]
    /\ UNCHANGED <<chain, hook, faults, db>>

\* what a read can end with: NoError is success
ReadOutcomes(q, r) ==
    IF r = "dbDeleg"
    THEN {delegationAllowed(q.address)} \cup (IF faults THEN {DbFailure} ELSE {})
    ELSE IF r = "dbVote"
    THEN {voteAllowed(q.address, q.in.proposalId)}
            \cup (IF faults THEN {DbFailure} ELSE {})
    ELSE {NoError} \cup (IF faults THEN {RpcFailure, RpcErrorResponse} ELSE {})

BatchOf(q) == IF q.op \in {"vote", "canVote"} THEN VoteBatch ELSE DelegateBatch

InBatch(q, r) == \E i \in 1..Len(BatchOf(q)) : BatchOf(q)[i] = r

AllFulfilled(q) ==
    \A i \in 1..Len(BatchOf(q)) : q.reads[BatchOf(q)[i]] = "ok"

\* the continuation a completed read resumes
Resume(q, r, out) ==
    LET f == [q EXCEPT !.reads[r] = IF out = NoError THEN "ok" ELSE "failed",
                       !.cause = IF out = NoError THEN q.cause ELSE out,
                       !.dbSeen = IF r \in {"dbDeleg", "dbVote"} THEN Len(db)
                                  ELSE q.dbSeen] IN
    IF q.pc = "batch" /\ InBatch(q, r)
    THEN IF out # NoError
         THEN EligThrow(f, IF q.op \in {"vote", "canVote"}
                           THEN CanVoteCatch(out) ELSE CanDelegateCatch(out))
         ELSE IF ~AllFulfilled(f) THEN f
         ELSE IF q.op \in {"vote", "canVote"}
         THEN [f EXCEPT !.pc = "power", !.reads["power"] = "inflight"]
         ELSE CanDelegateChecks(f)
    ELSE IF q.pc = "power" /\ r = "power"
    THEN IF out # NoError THEN EligThrow(f, CanVoteCatch(out)) ELSE CanVoteChecks(f)
    ELSE f

\* a remote read completes
ReadDone(p, r) ==
    /\ req[p].reads[r] = "inflight"
    /\ \E out \in ReadOutcomes(req[p], r) :
          req' = [req EXCEPT ![p] = Resume(req[p], r, out)]
    /\ UNCHANGED <<chain, hook, faults, db>>

\* insertVoteTx / insertDelegateTx completes
InsertDone(p) ==
    /\ req[p].pc = "insert"
    /\ \E ok \in (IF faults THEN BOOLEAN ELSE {TRUE}) :
          IF ok
          THEN /\ db' = Append(db, IF req[p].op = "vote" THEN NewVoteTx(req[p])
                                   ELSE NewDelegateTx(req[p]))
               /\ req' = [req EXCEPT ![p] = AfterInsert([req[p] EXCEPT !.stored = TRUE])]
          ELSE /\ db' = db
               /\ req' = [req EXCEPT ![p] = Throw(req[p], DbFailure)]
    /\ UNCHANGED <<chain, hook, faults>>

\* the notification request completes
NotifyDone(p) ==
    /\ req[p].pc = "notify"
    /\ \E ok \in BOOLEAN :
          req' = [req EXCEPT ![p] =
                    IF ok THEN Return([req[p] EXCEPT !.notify = "ok"])
                    ELSE NotifyFailed(req[p])]
    /\ UNCHANGED <<chain, hook, faults, db>>

\* the caller has the outcome; the slot is free for the next call
Finish(p) ==
    /\ req[p].pc = "done"
    /\ req' = [req EXCEPT ![p] = Idle]
    /\ UNCHANGED <<chain, hook, faults, db>>

(***************************************************************************)
(* Spec: calls of every exported function with every input, one call at a  *)
(* time.  SpecConc: correctly signed delegations of one address, any       *)
(* number of them outstanding at once, with reads that do not fail.        *)
(***************************************************************************)
Init ==
    /\ chain \in Chains
    /\ hook \in BOOLEAN
    /\ faults = TRUE
    /\ db = <<>>
    /\ req = [p \in Procs |-> Idle]

Alone(p) == \A o \in Procs \ {p} : req[o].pc = "idle"

Next ==
    \E p \in Procs :
        \/ \E op \in Ops : \E in \in Inputs(op) : Alone(p) /\ Call(p, op, in)
        \/ \E r \in ReadNames : ReadDone(p, r)
        \/ InsertDone(p)
        \/ NotifyDone(p)
        \/ Finish(p)

Spec == Init /\ [][Next]_vars

InitConc ==
    /\ chain = BaseChain
    /\ hook = TRUE
    /\ faults = FALSE
    /\ db = <<>>
    /\ req = [p \in Procs |-> Idle]

NextConc ==
    \E p \in Procs :
        \/ \E in \in ConcInputs : Call(p, "delegate", in)
        \/ \E r \in ReadNames : ReadDone(p, r)
        \/ InsertDone(p)
        \/ NotifyDone(p)
        \/ Finish(p)

SpecConc == InitConc /\ [][NextConc]_vars

(***************************************************************************)
(* Vocabulary of the properties.                                           *)
(***************************************************************************)
ChainReads == {"balance", "delegV", "delegP", "proposal", "receipt", "block", "power"}
DbReads == {"dbDeleg", "dbVote"}

Finished(p) == req[p].pc = "done"
NoReadFailed(p) == \A r \in ReadNames : req[p].reads[r] # "failed"

\* every argument of vote is given, so that vote reaches the signature recovery
VoteArgsGiven(in) ==
    UNDEF \notin {in.address, in.proposalId, in.support} /\ in.address # NULL

\* the signature of a vote call is by the alleged address over the vote submitted
CorrectlySignedVote(in) ==
    /\ VoteArgsGiven(in)
    /\ in.sig.ok
    /\ in.sig.data = createVoteBySigMessage(in.proposalId, in.support)
    /\ ToLowerCase(in.sig.signer) = ToLowerCase(in.address)

\* stored transactions of a type from an address
Stored(type, address) ==
    {i \in 1..Len(db) : db[i].type = type /\ db[i].from = address}

\* C1: in vote and delegate, once the insert has succeeded the call completes
\* successfully, whether the notification succeeds, fails or is not configured
C1_NotificationNeverFails ==
    \A p \in Procs :
        (req[p].op \in {"vote", "delegate"} /\ Finished(p) /\ req[p].stored)
            => req[p].result = "ok"

\* C2: every call of vote / delegate ends either successfully with its record
\* stored, or with an error carrying a numeric code and nothing stored
C2_OneOutcome ==
    \A p \in Procs :
        (req[p].op \in {"vote", "delegate"} /\ Finished(p)) =>
            \/ req[p].result = "ok" /\ req[p].stored
            \/ req[p].result = "failed" /\ req[p].error.hasCode /\ ~req[p].stored

\* C3: a vote call whose signature recovers to another address than the alleged
\* one (compared without regard to case), or whose recovery throws, fails with
\* InvalidSignature (code 422) and stores nothing
C3_BadSignatureRejected ==
    \A p \in Procs :
        LET in == req[p].in IN
        (/\ req[p].op = "vote"
         /\ req[p].pc # "idle"
         /\ VoteArgsGiven(in)
         /\ ~CorrectlySignedVote(in))
        => /\ Finished(p)
           /\ req[p].result = "failed"
           /\ req[p].error.name = "invalid signature"
           /\ req[p].error.hasCode
           /\ req[p].error.code = 422
           /\ ~req[p].stored
           /\ Stored("vote", ToLowerCase(in.address)) = {}

\* a vote signed by another key than the alleged address's has been rejected
C3_Witness ==
    \E p \in Procs :
        /\ req[p].op = "vote"
        /\ Finished(p)
        /\ VoteArgsGiven(req[p].in)
        /\ req[p].in.sig.ok
        /\ req[p].in.sig.signer = "0xbb"
        /\ req[p].in.address = "0xAa"
        /\ req[p].error = InvalidSignature

\* C4: a correctly signed vote by an address with enough voting power, inside the
\* proposal's active window, not canceled, not voted, none pending and no read
\* failing, succeeds and stores exactly one transaction, of type "vote" and not
\* executed
C4_EligibleVoteStored ==
    \A p \in Procs :
        (/\ req[p].op = "vote"
         /\ Finished(p)
         /\ CorrectlySignedVote(req[p].in)
         /\ chain.votesDelegated >= MIN_COMP
         /\ chain.currentBlock > chain.startBlock
         /\ chain.currentBlock < chain.endBlock - SAFETY_MARGIN
         /\ ~chain.canceled
         /\ chain.receiptPower = 0
         /\ NoReadFailed(p))
        => /\ req[p].result = "ok"
           /\ Cardinality(Stored("vote", req[p].address)) = 1
           /\ \A i \in Stored("vote", req[p].address) : ~db[i].executed

\* C5: with the other conditions met and no read failing, canVote rejects with
\* ProposalNotActive when currentBlock <= startBlock, accepts at startBlock + 1
\* (when that is below endBlock - SAFETY_MARGIN), rejects with ProposalNotActive
\* from endBlock - SAFETY_MARGIN on, and rejects when the proposal is canceled
C5_VotingWindow ==
    \A p \in Procs :
        (/\ req[p].op = "canVote"
         /\ Finished(p)
         /\ req[p].in.address \notin {UNDEF, NULL}
         /\ IsAddress(req[p].in.address)
         /\ req[p].in.proposalId # UNDEF
         /\ chain.votesDelegated >= MIN_COMP
         /\ chain.receiptPower = 0
         /\ NoReadFailed(p))
        => /\ chain.currentBlock <= chain.startBlock
                => req[p].error = ProposalNotActive
           /\ (/\ chain.currentBlock = chain.startBlock + 1
               /\ chain.startBlock + 1 < chain.endBlock - SAFETY_MARGIN
               /\ ~chain.canceled)
                => req[p].result = "ok"
           /\ chain.currentBlock >= chain.endBlock - SAFETY_MARGIN
                => req[p].error = ProposalNotActive
           /\ chain.canceled => req[p].result = "failed"

\* the four reads of canDelegate have all succeeded for this call
DelegateReadsOk(p) ==
    \A r \in {"balance", "delegV", "delegP", "dbDeleg"} : req[p].reads[r] = "ok"

\* the delegatee the caller specified equals, without regard to case, both the
\* current delegatee for voting and the current delegatee for proposition
SpecifiedEqualsBoth(p) ==
    /\ req[p].in.delegatee # UNDEF
    /\ ToLowerCase(req[p].in.delegatee) = ToLowerCase(chain.delegV)
    /\ ToLowerCase(req[p].in.delegatee) = ToLowerCase(chain.delegP)

\* C6: with a valid address, sufficient balance and all reads succeeded,
\* canDelegate rejects with NoOpDelegation when the specified delegatee equals
\* both current delegatees, and accepts when it differs from one of them or
\* when none is specified
C6_NoOpDelegation ==
    \A p \in Procs :
        (/\ req[p].op \in {"canDelegate", "delegate"}
         /\ DelegateReadsOk(p)
         /\ chain.balance >= MIN_COMP)
        => IF SpecifiedEqualsBoth(p)
           THEN /\ req[p].elig = "failed"
                /\ req[p].error = NoOpDelegation
                /\ Finished(p)
           ELSE req[p].elig = "ok"

\* canDelegate has rejected a delegatee given in mixed case that both current
\* delegatees equal
C6_Witness ==
    \E p \in Procs :
        /\ req[p].op = "canDelegate"
        /\ DelegateReadsOk(p)
        /\ req[p].in.delegatee = "0xBb"
        /\ req[p].delegatee = "0xbb"
        /\ chain.delegV = "0xBb"
        /\ chain.delegP = "0xBb"
        /\ req[p].error = NoOpDelegation

\* C7: in canDelegate and canVote every failed chain read reaches the caller as
\* ChainQueryFailed (code 500), whatever the original error carries, and every
\* failure of the database check reaches the caller unchanged
C7_ReadErrorTranslation ==
    \A p \in Procs :
        (req[p].op \in {"canDelegate", "canVote"} /\ Finished(p)) =>
            /\ (\E r \in ChainReads : req[p].reads[r] = "failed")
                   => req[p].error = ChainQueryFailed
            /\ (\E r \in DbReads : req[p].reads[r] = "failed")
                   => req[p].error = req[p].cause

\* the reads of canVote's first batch have all succeeded for this call
VoteBatchOk(p) ==
    \A r \in {"proposal", "receipt", "block", "dbVote"} : req[p].reads[r] = "ok"

C9_NoInsertAfterFailedCheck ==
    [][\A p \in Procs :
          (req'[p].op \in {"vote", "delegate"} /\ req'[p].elig = "failed") =>
              /\ db' = db
              /\ req'[p].pc = "done"
              /\ req'[p].result = "failed"
              /\ ~req'[p].stored
              /\ req'[p].notify = "none"]_vars

\* a delegate call whose eligibility check failed on a read has ended with
\* nothing stored
C9_Witness ==
    \E p \in Procs :
        /\ req[p].op = "delegate"
        /\ req[p].elig = "failed"
        /\ req[p].cause = RpcFailure
        /\ Finished(p)
        /\ ~req[p].stored
        /\ db = <<>>

\* C10 as claimed: however delegate calls of one address interleave, at most one
\* delegation of the address is stored
C10_AtMostOneStored ==
    \A a \in Accounts : Cardinality(Stored("delegate", a)) <= 1

\* C10: a delegate call stores its transaction only when its pending check was
\* answered, without failure, while no delegation of the address was stored
C10_StoredOnlyIfUnseen ==
    \A p \in Procs :
        (req[p].op = "delegate" /\ (req[p].stored \/ req[p].pc = "insert")) =>
            /\ req[p].reads["dbDeleg"] = "ok"
            /\ \A i \in Stored("delegate", req[p].address) : i > req[p].dbSeen

\* a delegate call whose pending check found the delegation another call had
\* stored has been rejected, and that delegation is the only one stored
C10_Witness ==
    \E p \in Procs :
        /\ req[p].op = "delegate"
        /\ Finished(p)
        /\ req[p].error = DbPending
        /\ req[p].dbSeen = 1
        /\ ~req[p].stored
        /\ Cardinality(Stored("delegate", req[p].address)) = 1

====
